---- MODULE Spec2Model ----
(***************************************************************************)
(* State-machine model of recommendation_engine.py: the catalogue loader,  *)
(* the text index build, the weighted criteria scorer and the two ranking  *)
(* entry points of AssessmentRecommendationEngine.                         *)
(*                                                                         *)
(* Python values are tagged records [t |-> tag, v |-> payload]; a str is a *)
(* sequence of one-character strings so that lower(), strip(), substring   *)
(* tests and tokenisation are computed, not assumed.  A dict is a function *)
(* from key names to tagged values; an absent key is a key outside its     *)
(* DOMAIN, a JSON null is the value JNull.                                 *)
(***************************************************************************)
EXTENDS Integers, Sequences, FiniteSets, TLC

VARIABLES
    source,       \* the catalogue file named by catalogue_path
    phase,        \* "new" | "ready" (engine constructed) | "failed" (__init__ raised)
    error,        \* the exception __init__ raised, NoError otherwise
    assessments,  \* self.assessments, a tagged value
    index,        \* self._vectorizer / self._tfidf_matrix
    call,         \* the last facade call and its arguments
    outcome,      \* "none" | "returned" | the exception type the call raised
    result,       \* the list the last call returned
    resultPos,    \* ghost: catalogue position of each returned record
    queries,      \* ghost: number of times the last call queried the index
    held,         \* ghost: the returned value is the object self.assessments
    callers,      \* the callers sharing the engine: position, call, result
    twin          \* a second engine instance built from the same source

vars == <<source, phase, error, assessments, index, call, outcome, result,
          resultPos, queries, held, callers, twin>>

\* the callers of the shared engine and the second instance
others == <<callers, twin>>

-----------------------------------------------------------------------------
(* Python values *)

JNull == [t |-> "null"]
JStr(s) == [t |-> "str", v |-> s]
JInt(n) == [t |-> "int", v |-> n]
JBool(b) == [t |-> "bool", v |-> b]
JList(l) == [t |-> "list", v |-> l]
JDict(d) == [t |-> "dict", v |-> d]
\* a float, held as an integer number of 1/scale
JFloat(n, scale) == [t |-> "float", v |-> n, scale |-> scale]

EmptyDict == [k \in {} |-> JNull]

\* bool(v): Python truthiness
Truthy(v) ==
    CASE v.t = "null" -> FALSE
      [] v.t = "bool" -> v.v
      [] v.t = "int" -> v.v # 0
      [] v.t = "str" -> v.v # <<>>
      [] v.t = "list" -> v.v # <<>>
      [] v.t = "dict" -> DOMAIN v.v # {}
      [] OTHER -> TRUE

\* dict.get(key, default)
Get(d, key, default) == IF key \in DOMAIN d THEN d[key] ELSE default

\* {**d, key: value}: a new dict with every item of d and key set to value
Put(d, key, value) ==
    [k \in DOMAIN d \cup {key} |-> IF k = key THEN value ELSE d[k]]

-----------------------------------------------------------------------------
(* str operations *)

\* the upper-case letters and their lower-case forms
UpperCase ==
    <<"A", "B", "C", "D", "E", "F", "G", "H", "I", "J", "K", "L", "M",
      "N", "O", "P", "Q", "R", "S", "T", "U", "V", "W", "X", "Y", "Z">>
LowerCase ==
    <<"a", "b", "c", "d", "e", "f", "g", "h", "i", "j", "k", "l", "m",
      "n", "o", "p", "q", "r", "s", "t", "u", "v", "w", "x", "y", "z">>

LowerChar(c) ==
    IF \E i \in 1..Len(UpperCase) : UpperCase[i] = c
    THEN LowerCase[CHOOSE i \in 1..Len(UpperCase) : UpperCase[i] = c]
    ELSE c

\* str.lower()
Lower(s) == [i \in 1..Len(s) |-> LowerChar(s[i])]

\* x in s, for two str
IsSubstring(x, s) ==
    \E i \in 0..(Len(s) - Len(x)) : \A j \in 1..Len(x) : s[i + j] = x[j]

IsSpace(c) == c = " "

RECURSIVE LStrip(_)
LStrip(s) == IF s # <<>> /\ IsSpace(Head(s)) THEN LStrip(Tail(s)) ELSE s

RECURSIVE RStrip(_)
RStrip(s) ==
    IF s # <<>> /\ IsSpace(s[Len(s)]) THEN RStrip(SubSeq(s, 1, Len(s) - 1)) ELSE s

\* str.strip()
Strip(s) == RStrip(LStrip(s))

RECURSIVE JoinSpace(_)
\* " ".join(parts)
JoinSpace(parts) ==
    IF parts = <<>> THEN <<>>
    ELSE IF Len(parts) = 1 THEN parts[1]
    ELSE parts[1] \o <<" ">> \o JoinSpace(Tail(parts))

\* x in xs, for a list
InList(x, xs) == \E i \in 1..Len(xs) : xs[i] = x

\* [f.lower() for f in xs]
LowerAll(xs) == [i \in 1..Len(xs) |-> Lower(xs[i])]

\* set(xs)
ToSet(xs) == {xs[i] : i \in 1..Len(xs)}

Min(a, b) == IF a <= b THEN a ELSE b
Max(a, b) == IF a >= b THEN a ELSE b

-----------------------------------------------------------------------------
(* Catalogue sources *)

\* bounds of the model
MaxCat == 3        \* longest catalogue of the scoring specification
MaxTextCat == 12   \* longest catalogue of the text-ranking specification
MaxTopN == 4       \* largest top_n passed to recommend

\* record templates: flat mappings in which only id and name are always present
RecFull ==
    [k \in {"id", "name", "url", "category", "type", "description",
            "duration_minutes", "difficulty_level", "target_roles",
            "competencies", "use_cases", "languages"} |->
        CASE k = "id" -> JStr(<<"A", "1">>)
          [] k = "name" -> JStr(<<"A", "b", " ", "c", "d">>)
          [] k = "url" -> JStr(<<"u">>)
          [] k = "category" -> JStr(<<"c", "a">>)
          [] k = "type" -> JStr(<<"c", "g">>)
          [] k = "description" -> JStr(<<"x", "y", " ", "o", "f", " ", "a", "b">>)
          [] k = "duration_minutes" -> JInt(20)
          [] k = "difficulty_level" -> JStr(<<"b", "g">>)
          [] k = "target_roles" -> JList(<< <<"a", "b">>, <<"D">> >>)
          [] k = "competencies" -> JList(<< <<"x">>, <<"Y">> >>)
          [] k = "use_cases" -> JList(<< <<"h", "i">> >>)
          [] k = "languages" -> JList(<< <<"e", "n">> >>)]

RecWild ==
    [k \in {"id", "name", "type", "duration_minutes", "difficulty_level",
            "target_roles", "competencies", "use_cases", "languages"} |->
        CASE k = "id" -> JStr(<<"A", "2">>)
          [] k = "name" -> JStr(<<"c", "d">>)
          [] k = "type" -> JStr(<<"P", "E">>)
          [] k = "duration_minutes" -> JInt(35)
          [] k = "difficulty_level" -> JStr(<<"a", "d">>)
          [] k = "target_roles" -> JList(<< <<"a", "l", "l">> >>)
          [] k = "competencies" -> JList(<< <<"y">> >>)
          [] k = "use_cases" -> JList(<< <<"d", "v">>, <<"H", "I">> >>)
          [] k = "languages" -> JList(<< <<"f", "r">>, <<"e", "n">> >>)]

\* only the required fields, every optional field absent
RecMinimal ==
    [k \in {"id", "name"} |->
        CASE k = "id" -> JStr(<<"A", "3">>)
          [] k = "name" -> JStr(<<"x", "y">>)]

\* what crawl_catalog.save_catalog writes for a page with no type word:
\* asdict(Assessment) with type None
RecCrawled ==
    [k \in {"id", "name", "url", "category", "type", "description"} |->
        CASE k = "id" -> JStr(<<"A", "4">>)
          [] k = "name" -> JStr(<<"a", "b">>)
          [] k = "url" -> JStr(<<"u">>)
          [] k = "category" -> JStr(<<"c", "a">>)
          [] k = "type" -> JNull
          [] k = "description" -> JStr(<<"e", "f">>)]

\* every optional field present and null
RecNulls ==
    [k \in {"id", "name", "type", "description", "duration_minutes",
            "difficulty_level", "target_roles", "competencies", "use_cases",
            "languages"} |->
        CASE k = "id" -> JStr(<<"A", "5">>)
          [] k = "name" -> JStr(<<"e", "f", " ", "a", "b">>)
          [] OTHER -> JNull]

\* a name made of a stop word and a one-letter word only
RecStop ==
    [k \in {"id", "name"} |->
        CASE k = "id" -> JStr(<<"A", "6">>)
          [] k = "name" -> JStr(<<"o", "f", " ", "a">>)]

\* the base orderings catalogues are cut from
Masters ==
    { << RecFull, RecWild, RecMinimal >>,
      << RecWild, RecFull, RecMinimal, RecFull >>,
      << RecMinimal, RecCrawled, RecFull >>,
      << RecNulls, RecWild >>,
      << RecStop, RecStop, RecMinimal >> }

DigitChar(d) ==
    CASE d = 0 -> "0" [] d = 1 -> "1" [] d = 2 -> "2" [] d = 3 -> "3"
      [] d = 4 -> "4" [] d = 5 -> "5" [] d = 6 -> "6" [] d = 7 -> "7"
      [] d = 8 -> "8" [] OTHER -> "9"

\* the n-record catalogue cut from master m: m repeated, a record of a later
\* round carrying its round number in its id
Catalogue(m, n) ==
    [i \in 1..n |->
        LET r == m[((i - 1) % Len(m)) + 1]
            round == (i - 1) \div Len(m)
        IN  IF round = 0 THEN r
            ELSE Put(r, "id", JStr(r["id"].v \o <<".", DigitChar(round)>>))]

\* a file: absent, not JSON, or JSON with a top-level value
Missing == [kind |-> "missing"]
NotJson == [kind |-> "notjson"]
JsonFile(value) == [kind |-> "json", value |-> value]

WithAssessments(value) == JDict([k \in {"assessments"} |-> value])

\* JSON values that are not an object
NonObjects == {JList(<<>>), JList(<<JDict(RecMinimal)>>), JStr(<<"a">>), JInt(5), JNull}

\* values of the assessments key that are not a list
NonLists ==
    {JNull, JInt(0), JInt(5), JStr(<<>>), JStr(<<"a", "b">>), JBool(TRUE),
     JDict(EmptyDict), JDict(RecMinimal)}

CatalogueFiles(maxLen) ==
    {JsonFile(WithAssessments(JList([i \in 1..n |-> JDict(Catalogue(m, n)[i])]))) :
        m \in Masters, n \in 0..maxLen}

BrokenFiles ==
    {Missing, NotJson}
    \cup {JsonFile(v) : v \in NonObjects}
    \cup {JsonFile(JDict(EmptyDict)),
          JsonFile(JDict([k \in {"version"} |-> JInt(1)]))}
    \cup {JsonFile(WithAssessments(v)) : v \in NonLists}

Sources == BrokenFiles \cup CatalogueFiles(MaxCat)

-----------------------------------------------------------------------------
(* Exceptions and iteration *)

NoError == "none"

Ok(value) == [err |-> NoError, value |-> value]
Raise(exc) == [err |-> exc, value |-> JNull]

RECURSIVE KeySeq(_)
\* the keys of a dict, each a str
KeySeq(keys) ==
    IF keys = {} THEN <<>>
    ELSE LET k == CHOOSE x \in keys : TRUE
         IN  <<JStr(<<k>>)>> \o KeySeq(keys \ {k})

\* the elements a for loop over v visits, or TypeError when v is not iterable
Iterate(v) ==
    CASE v.t = "list" -> Ok(v.v)
      [] v.t = "str" -> Ok([i \in 1..Len(v.v) |-> JStr(<<v.v[i]>>)])
      [] v.t = "dict" -> Ok(KeySeq(DOMAIN v.v))
      [] OTHER -> Raise("TypeError")

-----------------------------------------------------------------------------
(* Catalogue Store: _load_catalogue *)

\* load_catalogue reading data['assessments'], with no default
load_catalogue_keyed(src) ==
    CASE src.kind = "missing" -> Raise("FileNotFoundError")
      [] src.kind = "notjson" -> Raise("ValueError")
      [] OTHER ->
            IF src.value.t # "dict" THEN Raise("TypeError")
            ELSE IF "assessments" \in DOMAIN src.value.v
                 THEN Ok(src.value.v["assessments"])
                 ELSE Raise("KeyError")

load_catalogue(src) ==
    CASE src.kind = "missing" -> Raise("FileNotFoundError")
      [] src.kind = "notjson" -> Raise("ValueError")
      [] OTHER ->
            IF src.value.t = "dict"
            THEN Ok(Get(src.value.v, "assessments", JList(<<>>)))
            ELSE Raise("AttributeError")   \* data.get on a non-dict

-----------------------------------------------------------------------------
(* Text Index: TfidfVectorizer(stop_words="english", ngram_range=(1, 2),
   max_df=0.9, min_df=1) *)

\* the members of the English stop-word list that can be spelled with the
\* words of the model's texts
StopWords == { <<"o", "f">>, <<"t", "h", "e">> }

IsWordChar(c) == c \notin {" ", ".", ","}

FlushToken(acc, cur) == IF Len(cur) >= 2 THEN Append(acc, cur) ELSE acc

RECURSIVE ScanTokens(_, _, _)
ScanTokens(s, cur, acc) ==
    IF s = <<>> THEN FlushToken(acc, cur)
    ELSE IF IsWordChar(Head(s))
         THEN ScanTokens(Tail(s), Append(cur, Head(s)), acc)
         ELSE ScanTokens(Tail(s), <<>>, FlushToken(acc, cur))

\* token_pattern (?u)\b\w\w+\b over the lower-cased text
Tokenize(s) == ScanTokens(Lower(s), <<>>, <<>>)

RemoveStopWords(tokens) == SelectSeq(tokens, LAMBDA w : w \notin StopWords)

\* the analyzer: unigrams, then bigrams of adjacent kept tokens
NGrams(toks) ==
    IF Len(toks) < 2 THEN [i \in 1..Len(toks) |-> <<toks[i]>>]
    ELSE [i \in 1..Len(toks) |-> <<toks[i]>>]
         \o [i \in 1..(Len(toks) - 1) |-> <<toks[i], toks[i + 1]>>]

Analyze(s) == NGrams(RemoveStopWords(Tokenize(s)))

\* a.get(key, "") or ""
OrEmpty(v) == IF Truthy(v) THEN v.v ELSE <<>>

TextField(a, key) == OrEmpty(Get(a, key, JStr(<<>>)))

\* the document of one assessment
Document(a) ==
    Strip(JoinSpace(<< TextField(a, "name"), TextField(a, "description"),
                       TextField(a, "type"), TextField(a, "category") >>))

DocFreq(term, docTerms) ==
    Cardinality({i \in 1..Len(docTerms) : InList(term, docTerms[i])})

\* the terms of docTerms kept by max_df=0.9, min_df=1
KeptTerms(docTerms, vocab) ==
    {t \in vocab : 10 * DocFreq(t, docTerms) <= 9 * Len(docTerms)}

\* the fitted vocabulary and the matrix, one row per document
Fitted(docTerms, kept) ==
    IF kept = {} THEN Raise("ValueError")
    ELSE Ok([vocabulary |-> kept,
             matrix |-> [i \in 1..Len(docTerms) |->
                            SelectSeq(docTerms[i], LAMBDA t : t \in kept)]])

FitTerms(docTerms, vocab) ==
    IF vocab = {} THEN Raise("ValueError")
    ELSE IF 9 * Len(docTerms) < 10 THEN Raise("ValueError")
    ELSE Fitted(docTerms, KeptTerms(docTerms, vocab))

Vocabulary(docTerms) == UNION {ToSet(docTerms[i]) : i \in 1..Len(docTerms)}

AnalyzeAll(documents) == [i \in 1..Len(documents) |-> Analyze(documents[i])]

FitAnalyzed(docTerms) == FitTerms(docTerms, Vocabulary(docTerms))

\* fit_transform(documents): the kept vocabulary and one row per document, or
\* ValueError (empty vocabulary; max_df * n_docs < min_df; no term left
\* after pruning)
fit_transform(documents) == FitAnalyzed(AnalyzeAll(documents))

Unset == [t |-> "unset"]

Vectorizer(fitted, vocabulary) ==
    [t |-> "TfidfVectorizer", fitted |-> fitted, vocabulary |-> vocabulary]

\* the index attributes as __init__ leaves them before _build_text_index
NoIndex == [vectorizer |-> JNull, matrix |-> JNull]

\* lines 60-66: the vectorizer is created, then fitted
IndexOf(fit) ==
    IF fit.err # NoError
    THEN [err |-> fit.err,
          value |-> [vectorizer |-> Vectorizer(FALSE, {}), matrix |-> JNull]]
    ELSE Ok([vectorizer |-> Vectorizer(TRUE, fit.value.vocabulary),
             matrix |-> JList(fit.value.matrix)])

\* lines 49-66: the documents of the records, then the fit
IndexRecords(it) ==
    IF it.err # NoError THEN [err |-> it.err, value |-> NoIndex]
    ELSE IF \E i \in 1..Len(it.value) : it.value[i].t # "dict"
    THEN [err |-> "AttributeError", value |-> NoIndex]   \* a.get on a non-dict
    ELSE IndexOf(fit_transform([i \in 1..Len(it.value) |-> Document(it.value[i].v)]))

\* _build_text_index: the index attributes it leaves, and what it raised
build_text_index(asmts) ==
    IF ~Truthy(asmts) THEN Ok(NoIndex) ELSE IndexRecords(Iterate(asmts))

-----------------------------------------------------------------------------
(* Criteria Scorer: _calculate_match_score *)

\* a credit or score as the fraction n/d, d > 0
Frac(n, d) == [n |-> n, d |-> d]
FracAdd(a, b) == Frac(a.n * b.d + b.n * a.d, a.d * b.d)
FracLe(a, b) == a.n * b.d <= b.n * a.d

\* what one dimension adds: to max_score (weight) and to score (credit)
Inactive == [err |-> NoError, weight |-> 0, credit |-> Frac(0, 1)]
Dim(weight, credit) == [err |-> NoError, weight |-> weight, credit |-> credit]
DimRaise(exc) == [err |-> exc, weight |-> 0, credit |-> Frac(0, 1)]

AllRole == <<"a", "l", "l">>

\* RoleCredit with the partial rule tested by "if", not "elif"
RoleCreditBoth(role, target_roles, lowered) ==
    Dim(30, Frac((IF InList(AllRole, target_roles) \/ InList(role, lowered)
                  THEN 30 ELSE 0)
                 + (IF \E i \in 1..Len(lowered) :
                          IsSubstring(role, lowered[i]) \/ IsSubstring(lowered[i], role)
                    THEN 15 ELSE 0), 1))

\* RoleCredit giving half credit only when the criteria role is inside a
\* target role
RoleCreditOneWay(role, target_roles, lowered) ==
    IF InList(AllRole, target_roles) \/ InList(role, lowered)
    THEN Dim(30, Frac(30, 1))
    ELSE IF \E i \in 1..Len(lowered) : IsSubstring(role, lowered[i])
         THEN Dim(30, Frac(15, 1))
         ELSE Dim(30, Frac(0, 1))

RoleCredit(role, target_roles, lowered) ==
    IF InList(AllRole, target_roles) \/ InList(role, lowered)
    THEN Dim(30, Frac(30, 1))
    ELSE IF \E i \in 1..Len(lowered) :
               IsSubstring(role, lowered[i]) \/ IsSubstring(lowered[i], role)
         THEN Dim(30, Frac(15, 1))
         ELSE Dim(30, Frac(0, 1))

RoleMatch(target_roles, target_role) ==
    IF target_roles.t # "list" THEN DimRaise("TypeError")
    ELSE RoleCredit(Lower(target_role), target_roles.v, LowerAll(target_roles.v))

RoleDim(a, c) ==
    IF ~Truthy(c.target_role) THEN Inactive
    ELSE RoleMatch(Get(a, "target_roles", JList(<<>>)), c.target_role.v)

CompetenciesCredit(assessment_competencies, required_competencies) ==
    IF required_competencies # {}
    THEN Dim(25, Frac(Cardinality(assessment_competencies \cap required_competencies) * 25,
                      Cardinality(required_competencies)))
    ELSE Dim(25, Frac(0, 1))

\* CompetenciesMatch dividing by the length of the criteria list, so that a
\* competency named twice is required twice
CompetenciesMatchCounted(comps, required) ==
    IF comps.t # "list" THEN DimRaise("TypeError")
    ELSE Dim(25, Frac(Cardinality(ToSet(LowerAll(comps.v)) \cap ToSet(LowerAll(required))) * 25,
                      Len(required)))

CompetenciesMatch(comps, required) ==
    IF comps.t # "list" THEN DimRaise("TypeError")
    ELSE CompetenciesCredit(ToSet(LowerAll(comps.v)), ToSet(LowerAll(required)))

CompetenciesDim(a, c) ==
    IF ~Truthy(c.competencies) THEN Inactive
    ELSE CompetenciesMatch(Get(a, "competencies", JList(<<>>)), c.competencies.v)

\* ListMatch crediting an element that contains the criteria value
ListMatchPartial(values, wanted, weight) ==
    IF values.t # "list" THEN DimRaise("TypeError")
    ELSE IF \E i \in 1..Len(values.v) : IsSubstring(Lower(wanted), Lower(values.v[i]))
         THEN Dim(weight, Frac(weight, 1))
         ELSE Dim(weight, Frac(0, 1))

\* a criteria value matched against a list field: all or nothing
ListMatch(values, wanted, weight) ==
    IF values.t # "list" THEN DimRaise("TypeError")
    ELSE IF InList(Lower(wanted), LowerAll(values.v))
         THEN Dim(weight, Frac(weight, 1))
         ELSE Dim(weight, Frac(0, 1))

\* a criteria value matched against a str field: all or nothing
StrMatch(value, wanted, weight) ==
    IF value.t # "str" THEN DimRaise("AttributeError")
    ELSE IF Lower(value.v) = Lower(wanted)
         THEN Dim(weight, Frac(weight, 1))
         ELSE Dim(weight, Frac(0, 1))

UseCaseDim(a, c) ==
    IF ~Truthy(c.use_case) THEN Inactive
    ELSE ListMatch(Get(a, "use_cases", JList(<<>>)), c.use_case.v, 20)

TypeDim(a, c) ==
    IF ~Truthy(c.assessment_type) THEN Inactive
    ELSE StrMatch(Get(a, "type", JStr(<<>>)), c.assessment_type.v, 10)

DurationMatch(duration, limit) ==
    IF duration.t # "int" THEN DimRaise("TypeError")
    ELSE IF duration.v <= limit THEN Dim(5, Frac(5, 1))
    ELSE IF 2 * duration.v <= 3 * limit THEN Dim(5, Frac(5, 2))
    ELSE Dim(5, Frac(0, 1))

\* DurationDim taking every limit other than None as given, 0 included
DurationDimGiven(a, c) ==
    IF c.max_duration_minutes.t = "null" THEN Inactive
    ELSE DurationMatch(Get(a, "duration_minutes", JInt(0)), c.max_duration_minutes.v)

DurationDim(a, c) ==
    IF ~Truthy(c.max_duration_minutes) THEN Inactive
    ELSE DurationMatch(Get(a, "duration_minutes", JInt(0)), c.max_duration_minutes.v)

DifficultyDim(a, c) ==
    IF ~Truthy(c.difficulty_level) THEN Inactive
    ELSE StrMatch(Get(a, "difficulty_level", JStr(<<>>)), c.difficulty_level.v, 5)

LanguageDim(a, c) ==
    IF ~Truthy(c.language) THEN Inactive
    ELSE ListMatch(Get(a, "languages", JList(<<>>)), c.language.v, 5)

\* the dimensions in the order the code evaluates them
Dimensions(a, c) ==
    << RoleDim(a, c), CompetenciesDim(a, c), UseCaseDim(a, c), TypeDim(a, c),
       DurationDim(a, c), DifficultyDim(a, c), LanguageDim(a, c) >>

RECURSIVE SumWeights(_)
SumWeights(dims) ==
    IF dims = <<>> THEN 0 ELSE Head(dims).weight + SumWeights(Tail(dims))

RECURSIVE SumCredits(_)
SumCredits(dims) ==
    IF dims = <<>> THEN Frac(0, 1) ELSE FracAdd(Head(dims).credit, SumCredits(Tail(dims)))

\* Normalize returning the accumulated score, not its share of max_score
NormalizeUnscaled(score, max_score) ==
    IF max_score > 0 THEN Ok(Frac(score.n, score.d))
    ELSE Ok(Frac(0, 1))

\* Normalize returning 100 when no dimension was judged
NormalizeFull(score, max_score) ==
    IF max_score > 0 THEN Ok(Frac(score.n * 100, score.d * max_score))
    ELSE Ok(Frac(100, 1))

\* lines 127-130: normalize to a percentage
Normalize(score, max_score) ==
    IF max_score > 0 THEN Ok(Frac(score.n * 100, score.d * max_score))
    ELSE Ok(Frac(0, 1))

FirstOf(set) == CHOOSE i \in set : \A j \in set : i <= j

\* the score of the evaluated dimensions, or the first exception raised
ScoreOf(dims, failing) ==
    IF failing # {} THEN Raise(dims[FirstOf(failing)].err)
    ELSE Normalize(SumCredits(dims), SumWeights(dims))

Failing(dims) == {i \in 1..Len(dims) : dims[i].err # NoError}

ScoreDims(dims) == ScoreOf(dims, Failing(dims))

\* the score as a fraction of one percent point, or the exception raised
calculate_match_score(a, c) == ScoreDims(Dimensions(a, c))

\* round(x, 2) of a non-negative fraction, in hundredths (ties to even)
RoundHalfEven(q, r, d) ==
    IF 2 * r < d THEN q
    ELSE IF 2 * r > d THEN q + 1
    ELSE IF q % 2 = 0 THEN q ELSE q + 1

Round2(x) == RoundHalfEven((x.n * 100) \div x.d, (x.n * 100) % x.d, x.d)

-----------------------------------------------------------------------------
(* Recommendation Facade: _filter_assessments, recommend *)

RECURSIVE InsertByKeyDescUnstable(_, _)
\* InsertByKeyDesc placing an item before the items of equal key
InsertByKeyDescUnstable(sorted, x) ==
    IF sorted = <<>> THEN <<x>>
    ELSE IF Head(sorted).key > x.key
         THEN <<Head(sorted)>> \o InsertByKeyDescUnstable(Tail(sorted), x)
         ELSE <<x>> \o sorted

\* list.sort(key=..., reverse=True): stable, equal keys keep their order
RECURSIVE InsertByKeyDesc(_, _)
InsertByKeyDesc(sorted, x) ==
    IF sorted = <<>> THEN <<x>>
    ELSE IF Head(sorted).key >= x.key
         THEN <<Head(sorted)>> \o InsertByKeyDesc(Tail(sorted), x)
         ELSE <<x>> \o sorted

RECURSIVE SortDescFrom(_, _)
SortDescFrom(todo, sorted) ==
    IF todo = <<>> THEN sorted
    ELSE SortDescFrom(Tail(todo), InsertByKeyDesc(sorted, Head(todo)))

sort_reverse(items) == SortDescFrom(items, <<>>)

\* xs[:n + 1]
SliceToInclusive(xs, n) ==
    IF n + 1 >= 0 THEN SubSeq(xs, 1, Min(n + 1, Len(xs)))
    ELSE SubSeq(xs, 1, Max(0, Len(xs) + n + 1))

\* xs[:n]
SliceTo(xs, n) ==
    IF n >= 0 THEN SubSeq(xs, 1, Min(n, Len(xs)))
    ELSE SubSeq(xs, 1, Max(0, Len(xs) + n))

\* assessment[key] = value: the stored dict itself is written and returned
attach_in_place(store, pos, key, value) ==
    [store |-> [store EXCEPT ![pos] = JDict(Put(store[pos].v, key, value))],
     entry |-> Put(store[pos].v, key, value)]

\* {**assessment, key: value}: a new dict; the stored one is left as it is
attach(store, pos, key, value) ==
    [store |-> store, entry |-> Put(store[pos].v, key, value)]

\* KeepNotExcluded comparing the lower-cased id
KeepNotExcludedLowered(records, exclude_set) ==
    SelectSeq([i \in 1..Len(records) |-> i],
              LAMBDA i : ~(Get(records[i].v, "id", JNull).t = "str"
                           /\ Lower(Get(records[i].v, "id", JNull).v) \in exclude_set))

\* line 139: the positions whose id is not in exclude_set
KeepNotExcluded(records, exclude_set) ==
    SelectSeq([i \in 1..Len(records) |-> i],
              LAMBDA i : ~(Get(records[i].v, "id", JNull).t = "str"
                           /\ Get(records[i].v, "id", JNull).v \in exclude_set))

FilterIterated(it, criteria) ==
    IF it.err # NoError THEN Raise(it.err)
    ELSE IF Truthy(criteria.exclude_ids)
    THEN Ok(KeepNotExcluded(it.value, ToSet(criteria.exclude_ids.v)))
    ELSE Ok([i \in 1..Len(it.value) |-> i])

\* _filter_assessments: the positions of the candidates, in catalogue order
\* (a self.assessments that cannot be iterated raises in the first loop over it)
filter_assessments(asmts, criteria) == FilterIterated(Iterate(asmts), criteria)

\* lines 161-164: append the copy carrying the rounded score
AppendScored(scored, pos, key, at) ==
    [store |-> at.store,
     scored |-> Append(scored, [pos |-> pos, key |-> key, rec |-> at.entry])]

\* ScoreStep writing match_score into the stored record
ScoreStepInPlace(store, pos, scored, key) ==
    AppendScored(scored, pos, key,
                 [store |-> [store EXCEPT ![pos] =
                                JDict(Put(store[pos].v, "match_score", JFloat(key, 100)))],
                  entry |-> Put(store[pos].v, "match_score", JFloat(key, 100))])

ScoreStep(store, pos, scored, key) ==
    AppendScored(scored, pos, key, attach(store, pos, "match_score", JFloat(key, 100)))

RECURSIVE score_loop(_, _, _, _)
RECURSIVE AfterScore(_, _, _, _, _)
RECURSIVE ContinueScoring(_, _, _)

\* lines 159-164: the scoring loop of recommend over the candidate positions
score_loop(store, todo, criteria, scored) ==
    IF todo = <<>> THEN [err |-> NoError, store |-> store, scored |-> scored]
    ELSE AfterScore(store, todo, criteria, scored,
                    calculate_match_score(store[Head(todo)].v, criteria))

AfterScore(store, todo, criteria, scored, score) ==
    IF score.err # NoError
    THEN [err |-> score.err, store |-> store, scored |-> scored]
    ELSE ContinueScoring(Tail(todo), criteria,
                         ScoreStep(store, Head(todo), scored, Round2(score.value)))

ContinueScoring(todo, criteria, step) ==
    score_loop(step.store, todo, criteria, step.scored)

\* lines 167-169: sort, slice
Ranked(asmts, loop, top_n) ==
    [err |-> loop.err,
     assessments |-> IF asmts.t = "list" THEN JList(loop.store) ELSE asmts,
     ranked |-> IF loop.err # NoError THEN <<>>
                ELSE SliceTo(sort_reverse(loop.scored), top_n)]

RecommendCandidates(asmts, candidates, criteria, top_n) ==
    IF candidates.err # NoError
    THEN [err |-> candidates.err, assessments |-> asmts, ranked |-> <<>>]
    ELSE Ranked(asmts,
                score_loop(Iterate(asmts).value, candidates.value, criteria, <<>>),
                top_n)

\* recommend(criteria, top_n): what it raised, the self.assessments it leaves,
\* and the ranked (position, record) pairs it returns
recommend(asmts, criteria, top_n) ==
    RecommendCandidates(asmts, filter_assessments(asmts, criteria), criteria, top_n)

-----------------------------------------------------------------------------
(* Text ranking: recommend_from_text *)

CountOf(term, terms) == Cardinality({i \in 1..Len(terms) : terms[i] = term})

RECURSIVE DotProduct(_, _, _)
\* the dot product of the term-count vectors of q and row over terms
DotProduct(terms, q, row) ==
    IF terms = {} THEN 0
    ELSE LET t == CHOOSE y \in terms : TRUE
         IN  CountOf(t, q) * CountOf(t, row) + DotProduct(terms \ {t}, q, row)

\* vectorizer.transform([query]): the query's terms that are in the vocabulary
transform(vectorizer, query) ==
    SelectSeq(Analyze(query), LAMBDA t : t \in vectorizer.vocabulary)

\* cosine_similarity of two term vectors, as the squared cosine of their term
\* counts in millionths (the idf weights are left out: they scale the axes,
\* and leave a similarity 0 exactly when no term is shared)
SquaredCosine(dot, nq, nr) ==
    IF dot = 0 THEN 0 ELSE (1000000 * dot * dot) \div (nq * nr)

CosineOver(terms, q, row) ==
    SquaredCosine(DotProduct(terms, q, row), DotProduct(terms, q, q),
                  DotProduct(terms, row, row))

cosine_similarity(q, row) == CosineOver(ToSet(q) \cup ToSet(row), q, row)

\* lines 202-208: append the copy carrying the similarity
AppendResult(results, item, at) ==
    [store |-> at.store,
     results |-> Append(results, [pos |-> item.pos, key |-> item.key, rec |-> at.entry])]

\* TextStep writing similarity into the stored record
TextStepInPlace(store, item, results) ==
    AppendResult(results, item,
                 [store |-> [store EXCEPT ![item.pos] =
                                JDict(Put(store[item.pos].v, "similarity",
                                          JFloat(item.key, 1000000)))],
                  entry |-> Put(store[item.pos].v, "similarity",
                                JFloat(item.key, 1000000))])

TextStep(store, item, results) ==
    AppendResult(results, item,
                 attach(store, item.pos, "similarity", JFloat(item.key, 1000000)))

RECURSIVE text_loop(_, _)
\* lines 200-208: the result-building loop over the ranked pairs
text_loop(todo, acc) ==
    IF todo = <<>> THEN acc
    ELSE text_loop(Tail(todo), TextStep(acc.store, Head(todo), acc.results))

\* Indexed sorting ascending and reversing, which turns ties round
IndexedReversed(sims) ==
    sort_reverse([i \in 1..Len(sims) |->
                     [pos |-> Len(sims) + 1 - i, key |-> sims[Len(sims) + 1 - i]]])

\* lines 197-198: pair each position with its similarity, sort
Indexed(sims) == sort_reverse([i \in 1..Len(sims) |-> [pos |-> i, key |-> sims[i]]])

\* lines 193-194
Similarities(query_vec, matrix) ==
    [i \in 1..Len(matrix) |-> cosine_similarity(query_vec, matrix[i])]

\* TextResult slicing to top_n itself
TextResultUnclamped(loop, top_n) ==
    [assessments |-> JList(loop.store), queries |-> 1,
     ranked |-> SliceTo(loop.results, top_n)]

\* lines 210-212: the clamp and the final slice
TextResult(loop, top_n) ==
    [assessments |-> JList(loop.store), queries |-> 1,
     ranked |-> SliceTo(loop.results, Max(5, Min(top_n, 10)))]

\* lines 193-212
RankText(asmts, idx, query, top_n) ==
    TextResult(
        text_loop(SliceTo(Indexed(Similarities(transform(idx.vectorizer, query),
                                               idx.matrix.v)),
                          Max(top_n, 10)),
                  [store |-> asmts.v, results |-> <<>>]),
        top_n)

\* QueryText without the test of the stripped query
QueryTextUnchecked(asmts, idx, query, top_n) == RankText(asmts, idx, query, top_n)

\* lines 189-191
QueryText(asmts, idx, query, top_n) ==
    IF query = <<>> THEN [assessments |-> asmts, queries |-> 0, ranked |-> <<>>]
    ELSE RankText(asmts, idx, query, top_n)

\* recommend_from_text(text, top_n): the self.assessments it leaves, the number
\* of index queries it made and the ranked (position, record) pairs it returns
recommend_from_text(asmts, idx, text, top_n) ==
    IF ~Truthy(text) \/ ~Truthy(asmts) \/ idx.vectorizer.t = "null" \/ idx.matrix.t = "null"
    THEN [assessments |-> asmts, queries |-> 0, ranked |-> <<>>]
    ELSE QueryText(asmts, idx, Strip(text.v), top_n)

-----------------------------------------------------------------------------
(* Catalogue Store lookups: get_assessment_by_id, get_all_assessments,
   search_by_name *)

RECURSIVE LastWithId(_, _, _)
\* FirstWithId going on past a match, so that the last match is returned
LastWithId(records, assessment_id, pos) ==
    IF records = <<>> THEN Ok(0)
    ELSE IF Head(records).t # "dict" THEN Raise("AttributeError")
    ELSE IF LastWithId(Tail(records), assessment_id, pos + 1).err # NoError
            \/ LastWithId(Tail(records), assessment_id, pos + 1).value # 0
         THEN LastWithId(Tail(records), assessment_id, pos + 1)
    ELSE IF Get(Head(records).v, "id", JNull) = assessment_id THEN Ok(pos)
    ELSE Ok(0)

RECURSIVE FirstWithId(_, _, _)
\* lines 216-219: the position of the first record whose id equals the
\* argument, 0 when the loop ends without one
FirstWithId(records, assessment_id, pos) ==
    IF records = <<>> THEN Ok(0)
    ELSE IF Head(records).t # "dict" THEN Raise("AttributeError")
    ELSE IF Get(Head(records).v, "id", JNull) = assessment_id THEN Ok(pos)
    ELSE FirstWithId(Tail(records), assessment_id, pos + 1)

ByIdIterated(it, assessment_id) ==
    IF it.err # NoError THEN Raise(it.err)
    ELSE FirstWithId(it.value, assessment_id, 1)

\* get_assessment_by_id(assessment_id): the position of the record returned,
\* 0 for None
get_assessment_by_id(asmts, assessment_id) ==
    ByIdIterated(Iterate(asmts), assessment_id)

\* get_all_assessments(): self.assessments itself, not a copy of it
get_all_assessments(asmts) == [value |-> asmts, same_object |-> TRUE]

\* search_term_lower in field.lower(), field being what assessment.get returned
LowerContains(field, search_term_lower) ==
    IF field.t # "str" THEN Raise("AttributeError")
    ELSE Ok(IsSubstring(search_term_lower, Lower(field.v)))

\* a or b: b is evaluated only when a is false
OrDescription(in_name, rec, search_term_lower) ==
    IF in_name.err # NoError \/ in_name.value THEN in_name
    ELSE LowerContains(Get(rec, "description", JStr(<<>>)), search_term_lower)

\* lines 230-231: the condition of the comprehension
NameMatches(rec, search_term_lower) ==
    IF rec.t # "dict" THEN Raise("AttributeError")
    ELSE OrDescription(LowerContains(Get(rec.v, "name", JStr(<<>>)), search_term_lower),
                       rec.v, search_term_lower)

RECURSIVE search_loop(_, _, _, _)
RECURSIVE SearchStep(_, _, _, _, _)

\* lines 228-232: the comprehension over self.assessments, collecting the
\* positions of the records kept
search_loop(records, search_term_lower, pos, found) ==
    IF records = <<>> THEN Ok(found)
    ELSE SearchStep(records, search_term_lower, pos, found,
                    NameMatches(Head(records), search_term_lower))

SearchStep(records, search_term_lower, pos, found, matches) ==
    IF matches.err # NoError THEN Raise(matches.err)
    ELSE search_loop(Tail(records), search_term_lower, pos + 1,
                     IF matches.value THEN Append(found, pos) ELSE found)

SearchIterated(it, search_term_lower) ==
    IF it.err # NoError THEN Raise(it.err)
    ELSE search_loop(it.value, search_term_lower, 1, <<>>)

\* search_by_name(search_term): the positions of the records returned
search_by_name(asmts, search_term) ==
    IF search_term.t # "str" THEN Raise("AttributeError")
    ELSE SearchIterated(Iterate(asmts), Lower(search_term.v))

-----------------------------------------------------------------------------
(* Inputs of the facade calls *)

NoCriteria ==
    [target_role |-> JNull, competencies |-> JNull, use_case |-> JNull,
     assessment_type |-> JNull, max_duration_minutes |-> JNull,
     difficulty_level |-> JNull, language |-> JNull, exclude_ids |-> JNull]

RoleValues ==
    {JStr(<<"a", "b">>), JStr(<<"A">>), JStr(<<"x", "D">>), JStr(<<"z", "z">>),
     JStr(<<>>)}
CompetencyValues ==
    {JList(<< <<"x">> >>), JList(<< <<"x">>, <<"y">> >>),
     JList(<< <<"X">>, <<"x">>, <<"z">> >>), JList(<<>>)}
UseCaseValues == {JStr(<<"h", "i">>), JStr(<<"h">>), JStr(<<>>)}
TypeValues == {JStr(<<"C", "G">>), JStr(<<"p", "e">>), JStr(<<"z", "z">>), JStr(<<"c">>)}
DurationValues == {JInt(20), JInt(25), JInt(10), JInt(0)}
DifficultyValues == {JStr(<<"b", "g">>), JStr(<<"A", "D">>), JStr(<<"a", "b", "g">>)}
LanguageValues == {JStr(<<"E", "N">>), JStr(<<"d", "e">>), JStr(<<"n">>)}
ExcludeValues ==
    {JList(<<>>), JList(<< <<"A", "1">> >>), JList(<< <<"z", "z">> >>),
     JList(<< <<"A", "1">>, <<"A", "2">>, <<"A", "3">>, <<"A", "4">>,
              <<"A", "5">>, <<"A", "6">> >>)}

\* criteria with one field set
SingleCriteria ==
    {[NoCriteria EXCEPT !.target_role = v] : v \in RoleValues}
    \cup {[NoCriteria EXCEPT !.competencies = v] : v \in CompetencyValues}
    \cup {[NoCriteria EXCEPT !.use_case = v] : v \in UseCaseValues}
    \cup {[NoCriteria EXCEPT !.assessment_type = v] : v \in TypeValues}
    \cup {[NoCriteria EXCEPT !.max_duration_minutes = v] : v \in DurationValues}
    \cup {[NoCriteria EXCEPT !.difficulty_level = v] : v \in DifficultyValues}
    \cup {[NoCriteria EXCEPT !.language = v] : v \in LanguageValues}
    \cup {[NoCriteria EXCEPT !.exclude_ids = v] : v \in ExcludeValues}

\* criteria with several fields set
CombinedCriteria ==
    [target_role : {JStr(<<"a", "b">>), JStr(<<"A">>)},
     competencies : {JList(<< <<"x">> >>), JList(<< <<"X">>, <<"x">>, <<"z">> >>)},
     use_case : {JNull, JStr(<<"H", "i">>)},
     assessment_type : {JNull, JStr(<<"C", "G">>)},
     max_duration_minutes : {JNull, JInt(25)},
     difficulty_level : {JNull, JStr(<<"b", "g">>)},
     language : {JNull},
     exclude_ids : {JNull, JList(<< <<"A", "1">> >>)}]

\* criteria naming a role and giving three other fields as empty or zero
GivenEmptyCriteria ==
    {[NoCriteria EXCEPT !.target_role = JStr(<<"a", "b">>), !.competencies = JList(<<>>),
                        !.use_case = JStr(<<>>), !.max_duration_minutes = JInt(0)]}

CriteriaSet == {NoCriteria} \cup SingleCriteria \cup CombinedCriteria \cup GivenEmptyCriteria

TopNs == (-1)..MaxTopN

Texts ==
    {JNull, JStr(<<>>), JStr(<<" ", " ">>), JStr(<<"a", "b">>),
     JStr(<<" ", "A", "b", " ", "c", "d", " ">>), JStr(<<"o", "f">>),
     JStr(<<"x", "y", " ", "z", "z">>)}

TextTopNs == {-3, 0, 3, 5, 7, 10, 11, 50}

\* ids and search terms passed to the lookups
Ids ==
    {JStr(<<"A", "1">>), JStr(<<"A", "2">>), JStr(<<"a", "1">>),
     JStr(<<"A", "5", ".", "1">>), JStr(<<"z", "z">>)}

Terms ==
    {JStr(<<>>), JStr(<<"A", "B">>), JStr(<<"e", "f">>), JStr(<<"x", "y">>),
     JStr(<<"z", "z">>)}

\* a second record carrying the id of RecFull
RecAgain == Put(RecWild, "id", JStr(<<"A", "1">>))

\* catalogues in which an id occurs twice (the loader does not check ids)
RepeatedIds ==
    { << RecMinimal, RecFull, RecAgain >>,
      << RecAgain, RecFull >> }

RepeatedIdFiles ==
    {JsonFile(WithAssessments(JList([i \in 1..Len(m) |-> JDict(m[i])]))) :
        m \in RepeatedIds}

-----------------------------------------------------------------------------
(* The state machine *)

NoCall == [op |-> "none"]

\* the callers of one shared engine instance (api.py serves every request
\* from the module-level engine)
Callers == {1, 2}
Idle == [pc |-> "idle"]

\* the second instance before its construction
NoTwin ==
    [phase |-> "new", assessments |-> Unset,
     index |-> [vectorizer |-> Unset, matrix |-> Unset],
     call |-> NoCall, outcome |-> "none", result |-> <<>>]

InitFrom(files) ==
    /\ source \in files
    /\ phase = "new"
    /\ error = [exc |-> NoError, origin |-> "none"]
    /\ assessments = Unset
    /\ index = [vectorizer |-> Unset, matrix |-> Unset]
    /\ call = NoCall
    /\ outcome = "none"
    /\ result = <<>>
    /\ resultPos = <<>>
    /\ queries = 0
    /\ held = FALSE
    /\ callers = [p \in Callers |-> Idle]
    /\ twin = NoTwin

Init == InitFrom(Sources)

\* lines 30-32: the index attributes, then the engine is ready or __init__ raised
IndexInit(asmts, built) ==
    /\ assessments' = asmts
    /\ index' = built.value
    /\ IF built.err # NoError
       THEN /\ phase' = "failed"
            /\ error' = [exc |-> built.err, origin |-> "index"]
       ELSE /\ phase' = "ready"
            /\ UNCHANGED error

\* line 28
EngineInit(load) ==
    IF load.err # NoError
    THEN /\ phase' = "failed"
         /\ error' = [exc |-> load.err, origin |-> "load"]
         /\ UNCHANGED <<assessments, index>>
    ELSE IndexInit(load.value, build_text_index(load.value))

\* AssessmentRecommendationEngine(catalogue_path)
Construct ==
    /\ phase = "new"
    /\ EngineInit(load_catalogue(source))
    /\ UNCHANGED <<source, call, outcome, result, resultPos, queries, held, others>>

Entries(ranked) == [i \in 1..Len(ranked) |-> ranked[i].rec]
Positions(ranked) == [i \in 1..Len(ranked) |-> ranked[i].pos]

RecommendReturns(r) ==
    /\ assessments' = r.assessments
    /\ outcome' = IF r.err = NoError THEN "returned" ELSE r.err
    /\ result' = Entries(r.ranked)
    /\ resultPos' = Positions(r.ranked)

\* engine.recommend(criteria, top_n)
Recommend(criteria, top_n) ==
    /\ phase = "ready"
    /\ RecommendReturns(recommend(assessments, criteria, top_n))
    /\ call' = [op |-> "recommend", criteria |-> criteria, top_n |-> top_n]
    /\ queries' = 0
    /\ held' = FALSE
    /\ UNCHANGED <<source, phase, error, index, others>>

TextReturns(r) ==
    /\ assessments' = r.assessments
    /\ queries' = r.queries
    /\ result' = Entries(r.ranked)
    /\ resultPos' = Positions(r.ranked)

\* engine.recommend_from_text(text, top_n)
RecommendFromText(text, top_n) ==
    /\ phase = "ready"
    /\ TextReturns(recommend_from_text(assessments, index, text, top_n))
    /\ outcome' = "returned"
    /\ call' = [op |-> "recommend_from_text", text |-> text, top_n |-> top_n]
    /\ held' = FALSE
    /\ UNCHANGED <<source, phase, error, index, others>>

OutcomeOf(r) == IF r.err = NoError THEN "returned" ELSE r.err

\* lines 216-219: the record found, or None
ByIdResult(records, r) ==
    IF r.err = NoError /\ r.value # 0 THEN records[r.value] ELSE JNull

ByIdReturns(records, r) ==
    /\ outcome' = OutcomeOf(r)
    /\ result' = ByIdResult(records, r)
    /\ resultPos' = IF r.err = NoError /\ r.value # 0 THEN <<r.value>> ELSE <<>>

\* engine.get_assessment_by_id(assessment_id); the lookups hand back stored
\* values, so their result is held as the tagged value itself
GetById(assessment_id) ==
    /\ phase = "ready"
    /\ ByIdReturns(Iterate(assessments).value,
                   get_assessment_by_id(assessments, assessment_id))
    /\ call' = [op |-> "get_by_id", id |-> assessment_id]
    /\ queries' = 0
    /\ held' = FALSE
    /\ UNCHANGED <<source, phase, error, assessments, index, others>>

AllReturns(r) ==
    /\ result' = r.value
    /\ held' = r.same_object
    /\ resultPos' = IF r.value.t = "list" THEN [i \in 1..Len(r.value.v) |-> i] ELSE <<>>

\* engine.get_all_assessments()
GetAll ==
    /\ phase = "ready"
    /\ AllReturns(get_all_assessments(assessments))
    /\ outcome' = "returned"
    /\ call' = [op |-> "get_all"]
    /\ queries' = 0
    /\ UNCHANGED <<source, phase, error, assessments, index, others>>

\* lines 228-232: the new list of the records kept
SearchResult(records, r) ==
    IF r.err = NoError
    THEN JList([i \in 1..Len(r.value) |-> records[r.value[i]]])
    ELSE JNull

SearchReturns(records, r) ==
    /\ outcome' = OutcomeOf(r)
    /\ result' = SearchResult(records, r)
    /\ resultPos' = IF r.err = NoError THEN r.value ELSE <<>>

\* engine.search_by_name(search_term)
SearchByName(search_term) ==
    /\ phase = "ready"
    /\ SearchReturns(Iterate(assessments).value, search_by_name(assessments, search_term))
    /\ call' = [op |-> "search_by_name", term |-> search_term]
    /\ queries' = 0
    /\ held' = FALSE
    /\ UNCHANGED <<source, phase, error, assessments, index, others>>

\* criteria and top_n values of the calls made in sequence
CoreCriteria ==
    {NoCriteria,
     [NoCriteria EXCEPT !.target_role = JStr(<<"a", "b">>)],
     [NoCriteria EXCEPT !.competencies = JList(<< <<"x">>, <<"y">> >>)],
     [NoCriteria EXCEPT !.assessment_type = JStr(<<"C", "G">>)],
     [NoCriteria EXCEPT !.max_duration_minutes = JInt(25)],
     [NoCriteria EXCEPT !.exclude_ids = JList(<< <<"A", "1">> >>)],
     [NoCriteria EXCEPT !.target_role = JStr(<<"A">>),
                        !.use_case = JStr(<<"H", "i">>),
                        !.exclude_ids = JList(<< <<"A", "2">> >>)]}

CoreTopNs == {0, 2, 5}
CoreTextTopNs == {3, 10}

\* any number of calls, in any order, on one engine
Next ==
    \/ Construct
    \/ \E criteria \in CoreCriteria, top_n \in CoreTopNs : Recommend(criteria, top_n)
    \/ \E text \in Texts, top_n \in CoreTextTopNs : RecommendFromText(text, top_n)

Spec == Init /\ [][Next]_vars

\* any number of calls of the five facade operations, in any order
InitFacade == InitFrom(Sources \cup RepeatedIdFiles)

NextFacade ==
    \/ Construct
    \/ \E criteria \in CoreCriteria, top_n \in CoreTopNs : Recommend(criteria, top_n)
    \/ \E text \in Texts, top_n \in CoreTextTopNs : RecommendFromText(text, top_n)
    \/ GetAll
    \/ \E assessment_id \in Ids : GetById(assessment_id)
    \/ \E search_term \in Terms : SearchByName(search_term)

SpecFacade == InitFacade /\ [][NextFacade]_vars

\* the calls issued by the callers of a shared engine and on a second instance
SharedRecommends ==
    {[op |-> "recommend", criteria |-> c, top_n |-> 2] :
        c \in {[NoCriteria EXCEPT !.target_role = JStr(<<"a", "b">>)],
               [NoCriteria EXCEPT !.target_role = JStr(<<"A">>),
                                  !.use_case = JStr(<<"H", "i">>),
                                  !.exclude_ids = JList(<< <<"A", "2">> >>)]}}
SharedTexts ==
    {[op |-> "recommend_from_text", text |-> JStr(<<"a", "b">>), top_n |-> 3]}
SharedByIds == {[op |-> "get_by_id", id |-> i] : i \in {JStr(<<"A", "1">>), JStr(<<"z", "z">>)}}
SharedAlls == {[op |-> "get_all"]}
SharedSearches ==
    {[op |-> "search_by_name", term |-> t] : t \in {JStr(<<"A", "B">>), JStr(<<"x", "y">>)}}

SharedCalls ==
    SharedRecommends \cup SharedTexts \cup SharedByIds \cup SharedAlls \cup SharedSearches

\* what a call leaves in self.assessments and hands to its caller
ServedRanked(r, outcome_of) ==
    [assessments |-> r.assessments, outcome |-> outcome_of, result |-> Entries(r.ranked)]

ServedRecommend(r) == ServedRanked(r, OutcomeOf(r))

ServedLookup(asmts, outcome_of, value) ==
    [assessments |-> asmts, outcome |-> outcome_of, result |-> value]

ServedById(asmts, r) ==
    ServedLookup(asmts, OutcomeOf(r), ByIdResult(Iterate(asmts).value, r))

ServedSearch(asmts, r) ==
    ServedLookup(asmts, OutcomeOf(r), SearchResult(Iterate(asmts).value, r))

\* the facade operation named by c, run on an engine holding asmts and idx
Serve(asmts, idx, c) ==
    CASE c.op = "recommend" ->
            ServedRecommend(recommend(asmts, c.criteria, c.top_n))
      [] c.op = "recommend_from_text" ->
            ServedRanked(recommend_from_text(asmts, idx, c.text, c.top_n), "returned")
      [] c.op = "get_by_id" -> ServedById(asmts, get_assessment_by_id(asmts, c.id))
      [] c.op = "get_all" ->
            ServedLookup(asmts, "returned", get_all_assessments(asmts).value)
      [] OTHER -> ServedSearch(asmts, search_by_name(asmts, c.term))

\* caller p issues a call on the shared engine
Invoke(p, c) ==
    /\ phase = "ready"
    /\ callers[p].pc # "running"
    /\ callers' = [callers EXCEPT ![p] = [pc |-> "running", call |-> c]]
    /\ UNCHANGED <<source, phase, error, assessments, index, call, outcome,
                   result, resultPos, queries, held, twin>>

Returned(p, served) ==
    /\ assessments' = served.assessments
    /\ callers' = [callers EXCEPT ![p] =
                      [pc |-> "done", call |-> callers[p].call,
                       outcome |-> served.outcome, result |-> served.result]]

\* the call of caller p runs on the engine as it is now and returns; no
\* operation of lines 143-232 assigns _vectorizer or _tfidf_matrix
Return(p) ==
    /\ callers[p].pc = "running"
    /\ Returned(p, Serve(assessments, index, callers[p].call))
    /\ UNCHANGED <<source, phase, error, index, call, outcome, result,
                   resultPos, queries, held, twin>>

\* several callers on one engine instance, their calls overlapping in any way
NextShared ==
    \/ Construct
    \/ \E p \in Callers, c \in SharedCalls : Invoke(p, c)
    \/ \E p \in Callers : Return(p)

SpecShared == Init /\ [][NextShared]_vars

\* lines 30-32 on the second instance
TwinIndexed(asmts, built) ==
    [NoTwin EXCEPT !.phase = IF built.err # NoError THEN "failed" ELSE "ready",
                   !.assessments = asmts,
                   !.index = built.value]

\* line 28 on the second instance
TwinLoaded(load) ==
    IF load.err # NoError THEN [NoTwin EXCEPT !.phase = "failed"]
    ELSE TwinIndexed(load.value, build_text_index(load.value))

\* AssessmentRecommendationEngine(catalogue_path) once more: the same source
\* is read again, nothing is taken from the first instance
ConstructTwin ==
    /\ twin.phase = "new"
    /\ twin' = TwinLoaded(load_catalogue(source))
    /\ UNCHANGED <<source, phase, error, assessments, index, call, outcome,
                   result, resultPos, queries, held, callers>>

TwinServed(c, served) ==
    [twin EXCEPT !.assessments = served.assessments, !.call = c,
                 !.outcome = served.outcome, !.result = served.result]

\* a facade call on the second instance
TwinCall(c) ==
    /\ twin.phase = "ready"
    /\ twin' = TwinServed(c, Serve(twin.assessments, twin.index, c))
    /\ UNCHANGED <<source, phase, error, assessments, index, call, outcome,
                   result, resultPos, queries, held, callers>>

\* two instances built from the same source, each serving its own calls
NextTwin ==
    \/ Construct
    \/ ConstructTwin
    \/ \E c \in SharedRecommends : Recommend(c.criteria, c.top_n)
    \/ \E c \in SharedTexts : RecommendFromText(c.text, c.top_n)
    \/ \E c \in SharedByIds : GetById(c.id)
    \/ GetAll
    \/ \E c \in SharedSearches : SearchByName(c.term)
    \/ \E c \in SharedCalls : TwinCall(c)

SpecTwin == Init /\ [][NextTwin]_vars

\* what a caller does to a list a lookup handed it
Edits == {"append", "pop", "reverse"}

\* the record a caller appends
RecNew ==
    [k \in {"id", "name"} |->
        CASE k = "id" -> JStr(<<"N", "1">>)
          [] k = "name" -> JStr(<<"z", "z">>)]

Edited(records, how) ==
    CASE how = "append" -> Append(records, JDict(RecNew))
      [] how = "pop" -> Tail(records)
      [] OTHER -> [i \in 1..Len(records) |-> records[Len(records) + 1 - i]]

\* the caller edits the list its last lookup returned; when that list is the
\* object self.assessments (line 223) the edit is an edit of the store
CallerEdits(how) ==
    /\ phase = "ready"
    /\ call.op \in {"get_all", "search_by_name", "caller_edit"}
    /\ outcome = "returned"
    /\ result.t = "list"
    /\ how = "append" => Len(result.v) < MaxCat
    /\ how = "pop" => result.v # <<>>
    /\ result' = JList(Edited(result.v, how))
    /\ assessments' = IF held THEN JList(Edited(result.v, how)) ELSE assessments
    /\ call' = [op |-> "caller_edit", how |-> how]
    /\ resultPos' = <<>>
    /\ UNCHANGED <<source, phase, error, index, outcome, queries, held, others>>

\* lookups and structured recommendations of a caller that edits the lists it
\* is handed (the text index, fitted to the loaded store, is not consulted)
NextCaller ==
    \/ Construct
    \/ \E c \in SharedRecommends : Recommend(c.criteria, c.top_n)
    \/ GetAll
    \/ \E c \in SharedByIds : GetById(c.id)
    \/ \E c \in SharedSearches : SearchByName(c.term)
    \/ \E how \in Edits : CallerEdits(how)

SpecCaller == Init /\ [][NextCaller]_vars

\* the scorer and ranker over the whole criteria set: construction, then one
\* recommend call
NextScore ==
    \/ Construct
    \/ \E criteria \in CriteriaSet, top_n \in TopNs :
          call = NoCall /\ Recommend(criteria, top_n)

SpecScore == Init /\ [][NextScore]_vars

\* the text ranker over catalogues longer than its result window:
\* construction, then one recommend_from_text call
InitText == InitFrom(CatalogueFiles(MaxTextCat))

NextText ==
    \/ Construct
    \/ \E text \in Texts, top_n \in TextTopNs :
          call = NoCall /\ RecommendFromText(text, top_n)

SpecText == InitText /\ [][NextText]_vars

-----------------------------------------------------------------------------
(* Properties *)

\* the engine holds a catalogue in the catalogue format: a list of records
HasCatalogue == phase = "ready" /\ assessments.t = "list"

Stored(i) == assessments.v[i].v

RecommendReturned == call.op = "recommend" /\ outcome = "returned"

TextReturned == call.op = "recommend_from_text" /\ outcome = "returned"

MatchScore(rec) == rec["match_score"].v

\* at least one criteria field is set (not None)
SomeFieldSet(criteria) ==
    \E f \in {"target_role", "competencies", "use_case", "assessment_type",
              "max_duration_minutes", "difficulty_level", "language"} :
        criteria[f].t # "null"

\* C1: for every catalogue record and every criteria object with at least one
\* field set, the score _calculate_match_score computes lies in [0, 100], and so
\* does every match_score recommend reports.
C1_ScoreInRange ==
    (HasCatalogue /\ call.op = "recommend" /\ SomeFieldSet(call.criteria)) =>
        /\ \A i \in 1..Len(assessments.v) :
              calculate_match_score(Stored(i), call.criteria).err = NoError =>
                  /\ FracLe(Frac(0, 1), calculate_match_score(Stored(i), call.criteria).value)
                  /\ FracLe(calculate_match_score(Stored(i), call.criteria).value, Frac(100, 1))
        /\ \A i \in 1..Len(result) :
              MatchScore(result[i]) >= 0 /\ MatchScore(result[i]) <= 100 * 100

\* a recommend call scored a record strictly between 0 and 100 and another at 100
C1_Witness ==
    /\ HasCatalogue /\ RecommendReturned /\ SomeFieldSet(call.criteria)
    /\ \E i \in 1..Len(result) : MatchScore(result[i]) > 0 /\ MatchScore(result[i]) < 10000
    /\ \E i \in 1..Len(result) : MatchScore(result[i]) = 10000

\* C2: recommend never raises for a catalogue whose records hold only id and
\* name and have each optional field absent or null, whatever the criteria.
C2_RecommendNeverRaises ==
    (HasCatalogue /\ call.op = "recommend") => outcome = "returned"

ExcludeSet(criteria) ==
    IF criteria.exclude_ids.t = "list" THEN ToSet(criteria.exclude_ids.v) ELSE {}

IsExcluded(rec, criteria) ==
    "id" \in DOMAIN rec /\ rec["id"].t = "str" /\ rec["id"].v \in ExcludeSet(criteria)

\* C3: no record whose id is in criteria.exclude_ids is in recommend's output;
\* when every catalogue record is excluded recommend returns an empty list.
C3_ExcludedAbsent ==
    (HasCatalogue /\ call.op = "recommend") =>
        /\ outcome = "returned" =>
              \A i \in 1..Len(result) : ~IsExcluded(result[i], call.criteria)
        /\ (\A i \in 1..Len(assessments.v) : IsExcluded(Stored(i), call.criteria)) =>
              (outcome = "returned" /\ result = <<>>)

\* a call that excluded a stored record and still returned others
C3_Witness ==
    /\ HasCatalogue /\ RecommendReturned
    /\ \E i \in 1..Len(assessments.v) : IsExcluded(Stored(i), call.criteria)
    /\ result # <<>>
    /\ call.top_n >= Len(assessments.v)

\* C4: recommend's list is sorted by match_score in non-increasing order, and
\* records of equal match_score keep their catalogue order.
C4_SortedStable ==
    (HasCatalogue /\ RecommendReturned) =>
        \A i, j \in 1..Len(result) :
            i < j =>
                /\ MatchScore(result[i]) >= MatchScore(result[j])
                /\ MatchScore(result[i]) = MatchScore(result[j]) =>
                      resultPos[i] < resultPos[j]

\* a returned list that holds a tie and that the sort had to reorder
C4_Witness ==
    /\ HasCatalogue /\ RecommendReturned
    /\ \E i, j \in 1..Len(result) :
          i < j /\ MatchScore(result[i]) = MatchScore(result[j])
    /\ \E i, j \in 1..Len(result) :
          i < j /\ resultPos[i] > resultPos[j]

Candidates == {i \in 1..Len(assessments.v) : ~IsExcluded(Stored(i), call.criteria)}

\* C5: for top_n >= 0 recommend returns exactly min(top_n, number of
\* non-excluded catalogue records) records.
C5_ResultCount ==
    (HasCatalogue /\ RecommendReturned /\ call.top_n >= 0) =>
        Len(result) = IF call.top_n <= Cardinality(Candidates)
                      THEN call.top_n ELSE Cardinality(Candidates)

\* top_n cut the list short while an excluded record took no slot
C5_Witness ==
    /\ HasCatalogue /\ RecommendReturned
    /\ Cardinality(Candidates) < Len(assessments.v)
    /\ call.top_n > 0 /\ call.top_n < Cardinality(Candidates)
    /\ Len(result) = call.top_n

\* text is None, empty or whitespace only
Blank(text) == text.t = "null" \/ \A i \in 1..Len(text.v) : text.v[i] = " "

Similarity(rec) == rec["similarity"].v

IndexBuilt == index.vectorizer.t = "TfidfVectorizer" /\ index.matrix.t = "list"

\* C7: recommend_from_text returns an empty list, without raising and without
\* querying the index, when the text is empty or whitespace only, the catalogue
\* is empty, or the index was never built.
C7_SoftFail ==
    (phase = "ready" /\ call.op = "recommend_from_text"
        /\ (Blank(call.text) \/ ~Truthy(assessments) \/ ~IndexBuilt)) =>
        (outcome = "returned" /\ result = <<>> /\ queries = 0)

\* a whitespace-only text met a built index over a non-empty catalogue
C7_Witness ==
    /\ phase = "ready" /\ call.op = "recommend_from_text"
    /\ call.text.t = "str" /\ call.text.v # <<>> /\ Blank(call.text)
    /\ IndexBuilt /\ HasCatalogue /\ Len(assessments.v) > 1
    /\ result = <<>>

\* the source is a JSON object holding a list of records under "assessments"
WellFormed(src) ==
    /\ src.kind = "json"
    /\ src.value.t = "dict"
    /\ "assessments" \in DOMAIN src.value.v
    /\ src.value.v["assessments"].t = "list"

\* C8: construction succeeds for every well-formed catalogue source, whatever
\* the number of records and their text: building the text index never fails.
C8_WellFormedConstructs ==
    (WellFormed(source) /\ phase # "new") => phase = "ready"

NotFound == error.exc = "FileNotFoundError"
Malformed == error.exc = "ValueError" /\ error.origin = "load"

\* the source exists and is not a JSON object with a list under "assessments"
\* (an object without the key is an empty catalogue)
IllFormed(src) ==
    \/ src.kind = "notjson"
    \/ /\ src.kind = "json"
       /\ \/ src.value.t # "dict"
          \/ /\ "assessments" \in DOMAIN src.value.v
             /\ src.value.v["assessments"].t # "list"

\* C9: construction fails with the not-found condition when the source does not
\* exist and with the malformed condition when it exists but is not a JSON
\* object with a list under "assessments"; a failed construction built no index.
C9_LoadFailures ==
    phase # "new" =>
        /\ source.kind = "missing" => (phase = "failed" /\ NotFound)
        /\ IllFormed(source) => (phase = "failed" /\ Malformed)
        /\ phase = "failed" => ~IndexBuilt

\* C10: recommend and recommend_from_text never modify a stored record: the
\* store is what the load returned, and each returned record holds the fields
\* and values of the stored record at its position plus the computed
\* match_score or similarity.
C10_StoreUntouched ==
    HasCatalogue =>
        /\ assessments = load_catalogue(source).value
        /\ \A i \in 1..Len(assessments.v) :
              DOMAIN Stored(i) \cap {"match_score", "similarity"} = {}
        /\ \A i \in 1..Len(result) :
              LET added == IF call.op = "recommend" THEN "match_score" ELSE "similarity"
              IN  /\ DOMAIN result[i] = DOMAIN Stored(resultPos[i]) \cup {added}
                  /\ result[i][added].t = "float"
                  /\ \A k \in DOMAIN Stored(resultPos[i]) :
                        result[i][k] = Stored(resultPos[i])[k]

\* recommend_from_text returned every record of a three-record catalogue, scored
C10_Witness ==
    /\ HasCatalogue /\ TextReturned
    /\ Len(assessments.v) = 3 /\ Len(result) = 3
    /\ \E i \in 1..Len(result) : Similarity(result[i]) > 0

\* what call c returns on an engine freshly built from the source, run alone
Alone(c) ==
    Serve(load_catalogue(source).value,
          build_text_index(load_catalogue(source).value).value, c)

\* C11: after construction no facade operation writes the catalogue or the
\* text index, so whatever the interleaving of the calls of several callers on
\* one engine, each call returns what it returns when run alone.
C11_SharedCallsIsolated ==
    phase = "ready" =>
        /\ assessments = load_catalogue(source).value
        /\ index = build_text_index(load_catalogue(source).value).value
        /\ \A p \in Callers :
              callers[p].pc = "done" =>
                  /\ callers[p].outcome = Alone(callers[p].call).outcome
                  /\ callers[p].result = Alone(callers[p].call).result

\* on a three-record catalogue one caller got two records from recommend
\* while the search_by_name of the other caller is in progress
C11_Witness ==
    /\ HasCatalogue /\ Len(assessments.v) = 3
    /\ callers[1].pc = "done" /\ callers[1].call.op = "recommend"
    /\ callers[1].outcome = "returned" /\ Len(callers[1].result) = 2
    /\ callers[2].pc = "running" /\ callers[2].call.op = "search_by_name"

\* C12: two engine instances built from sources of identical content return
\* identical results for the same inputs of the five facade operations,
\* whatever calls each served before.
C12_TwinsAgree ==
    /\ (phase # "new" /\ twin.phase # "new") => phase = twin.phase
    /\ (phase = "ready" /\ twin.phase = "ready") =>
          /\ assessments = twin.assessments
          /\ index = twin.index
          /\ (call.op # "none" /\ call = twin.call) =>
                (outcome = twin.outcome /\ result = twin.result)

\* both instances ranked the same text over three records and returned them
C12_Witness ==
    /\ HasCatalogue /\ twin.phase = "ready" /\ Len(assessments.v) = 3
    /\ call.op = "recommend_from_text" /\ call = twin.call
    /\ Len(result) = 3 /\ result = twin.result
    /\ \E i \in 1..Len(result) : Similarity(result[i]) > 0

\* the text of field k of a record, empty when the field is absent or null
FieldText(rec, k) == IF k \in DOMAIN rec /\ rec[k].t = "str" THEN rec[k].v ELSE <<>>

\* term is a case-insensitive substring of the record's name or description
NameOrDescriptionHas(rec, term) ==
    \/ IsSubstring(Lower(term), Lower(FieldText(rec, "name")))
    \/ IsSubstring(Lower(term), Lower(FieldText(rec, "description")))

SearchExpected(term) ==
    SelectSeq([i \in 1..Len(assessments.v) |-> i],
              LAMBDA i : NameOrDescriptionHas(Stored(i), term))

\* C13: search_by_name(term) returns, in catalogue order and without raising,
\* exactly the records whose name or description contains term as a
\* case-insensitive substring, a description that is absent or null included.
C13_SearchByName ==
    (HasCatalogue /\ call.op = "search_by_name") =>
        /\ outcome = "returned"
        /\ resultPos = SearchExpected(call.term.v)
        /\ result = JList([i \in 1..Len(resultPos) |-> assessments.v[resultPos[i]]])

\* C14: get_all returns the full catalogue in catalogue order as a snapshot:
\* a caller adding, removing or reordering entries of the returned sequence
\* does not change the store, and later get_by_id, search_by_name and
\* recommend calls return what they returned before.
C14_GetAllSnapshot ==
    phase = "ready" =>
        /\ call.op = "get_all" => result = assessments
        /\ assessments = load_catalogue(source).value
        /\ call.op \in {"get_by_id", "search_by_name", "recommend"} =>
              (outcome = Alone(call).outcome /\ result = Alone(call).result)

\* C15: when no criteria field is set every assessment scores exactly 0, and
\* recommend reports match_score 0 for every record it returns.
C15_UnsetScoresZero ==
    (HasCatalogue /\ call.op = "recommend" /\ ~SomeFieldSet(call.criteria)) =>
        /\ outcome = "returned"
        /\ \A i \in 1..Len(assessments.v) :
              /\ calculate_match_score(Stored(i), call.criteria).err = NoError
              /\ calculate_match_score(Stored(i), call.criteria).value.n = 0
        /\ \A i \in 1..Len(result) : MatchScore(result[i]) = 0

\* recommend with no field set returned three records, one of them with every
\* optional field null
C15_Witness ==
    /\ HasCatalogue /\ RecommendReturned /\ call.criteria = NoCriteria
    /\ Len(result) = 3
    /\ \E i \in 1..Len(result) :
          "type" \in DOMAIN result[i] /\ result[i]["type"].t = "null"
    /\ \A i \in 1..Len(result) : MatchScore(result[i]) = 0

\* the source is a JSON object that has no assessments key
NoAssessmentsKey(src) ==
    src.kind = "json" /\ src.value.t = "dict" /\ "assessments" \notin DOMAIN src.value.v

\* C16: a source that is a JSON object without an assessments key is not an
\* error: construction succeeds with an empty catalogue, get_all,
\* search_by_name, recommend and recommend_from_text return empty lists and
\* get_by_id returns not-found.
C16_MissingKeyEmpty ==
    (NoAssessmentsKey(source) /\ phase # "new") =>
        /\ phase = "ready"
        /\ error.exc = NoError
        /\ assessments = JList(<<>>)
        /\ call.op # "none" => outcome = "returned"
        /\ call.op \in {"recommend", "recommend_from_text"} => result = <<>>
        /\ call.op \in {"get_all", "search_by_name"} => result = JList(<<>>)
        /\ call.op = "get_by_id" => result = JNull

\* an object holding only another key was loaded and searched with the empty
\* term, which matches every record there is
C16_Witness ==
    /\ NoAssessmentsKey(source) /\ "version" \in DOMAIN source.value.v
    /\ phase = "ready"
    /\ call.op = "search_by_name" /\ call.term.v = <<>>
    /\ result = JList(<<>>)

\* the positions of the stored records whose id equals the argument
WithId(assessment_id) ==
    {i \in 1..Len(assessments.v) :
        "id" \in DOMAIN Stored(i) /\ Stored(i)["id"] = assessment_id}

\* C17: get_by_id(id) returns the first record in catalogue order whose id
\* equals the argument, and returns None without raising when no record has
\* that id, on an empty catalogue too.
C17_GetByIdFirst ==
    (HasCatalogue /\ call.op = "get_by_id") =>
        /\ outcome = "returned"
        /\ WithId(call.id) = {} => (result = JNull /\ resultPos = <<>>)
        /\ WithId(call.id) # {} =>
              /\ resultPos = <<FirstOf(WithId(call.id))>>
              /\ result = assessments.v[FirstOf(WithId(call.id))]

\* two stored records carry the id asked for and the earlier one, which is not
\* the first record of the catalogue, came back
C17_Witness ==
    /\ HasCatalogue /\ call.op = "get_by_id" /\ outcome = "returned"
    /\ Cardinality(WithId(call.id)) = 2
    /\ resultPos = <<2>>
    /\ result = assessments.v[2]

\* the scoring fields, and the weight the specification gives each
ScoringFields ==
    {"target_role", "competencies", "use_case", "assessment_type",
     "max_duration_minutes", "difficulty_level", "language"}

WeightOf(f) ==
    CASE f = "target_role" -> 30
      [] f = "competencies" -> 25
      [] f = "use_case" -> 20
      [] f = "assessment_type" -> 10
      [] OTHER -> 5

\* a criteria field is set when it holds a value the code takes as given: not
\* None and not an empty str, an empty list or 0
IsSet(criteria, f) == Truthy(criteria[f])

\* the list, text or number in field k of a record, empty or 0 when absent
FieldList(rec, k) == IF k \in DOMAIN rec /\ rec[k].t = "list" THEN rec[k].v ELSE <<>>
FieldNumber(rec, k) == IF k \in DOMAIN rec /\ rec[k].t = "int" THEN rec[k].v ELSE 0

RoleExact(rec, role) ==
    \E i \in 1..Len(FieldList(rec, "target_roles")) :
        \/ FieldList(rec, "target_roles")[i] = <<"a", "l", "l">>
        \/ Lower(FieldList(rec, "target_roles")[i]) = Lower(role)

RolePartial(rec, role) ==
    \E i \in 1..Len(FieldList(rec, "target_roles")) :
        \/ IsSubstring(Lower(role), Lower(FieldList(rec, "target_roles")[i]))
        \/ IsSubstring(Lower(FieldList(rec, "target_roles")[i]), Lower(role))

Required(criteria) == {Lower(criteria.competencies.v[i]) : i \in 1..Len(criteria.competencies.v)}
Offered(rec) ==
    {Lower(FieldList(rec, "competencies")[i]) : i \in 1..Len(FieldList(rec, "competencies"))}

HasLowered(list, wanted) == \E i \in 1..Len(list) : Lower(list[i]) = Lower(wanted)

\* credits are counted in units of 1/CreditUnit, which makes each an integer
CreditUnit(criteria) ==
    IF IsSet(criteria, "competencies") THEN 2 * Cardinality(Required(criteria)) ELSE 2

\* the credit the specification gives a record on a set dimension
CreditOf(rec, criteria, f, unit) ==
    CASE f = "target_role" ->
            IF RoleExact(rec, criteria.target_role.v) THEN 30 * unit
            ELSE IF RolePartial(rec, criteria.target_role.v) THEN 15 * unit
            ELSE 0
      [] f = "competencies" ->
            25 * 2 * Cardinality(Offered(rec) \cap Required(criteria))
      [] f = "use_case" ->
            IF HasLowered(FieldList(rec, "use_cases"), criteria.use_case.v)
            THEN 20 * unit ELSE 0
      [] f = "assessment_type" ->
            IF Lower(FieldText(rec, "type")) = Lower(criteria.assessment_type.v)
            THEN 10 * unit ELSE 0
      [] f = "max_duration_minutes" ->
            IF FieldNumber(rec, "duration_minutes") <= criteria.max_duration_minutes.v
            THEN 5 * unit
            ELSE IF 2 * FieldNumber(rec, "duration_minutes")
                        <= 3 * criteria.max_duration_minutes.v
                 THEN 5 * (unit \div 2)
                 ELSE 0
      [] f = "difficulty_level" ->
            IF Lower(FieldText(rec, "difficulty_level")) = Lower(criteria.difficulty_level.v)
            THEN 5 * unit ELSE 0
      [] OTHER ->
            IF HasLowered(FieldList(rec, "languages"), criteria.language.v)
            THEN 5 * unit ELSE 0

RECURSIVE SumOf(_, _, _, _)
SumOf(fields, rec, criteria, unit) ==
    IF fields = {} THEN [weight |-> 0, credit |-> 0]
    ELSE LET f == CHOOSE x \in fields : TRUE
             rest == SumOf(fields \ {f}, rec, criteria, unit)
         IN  [weight |-> rest.weight + WeightOf(f),
              credit |-> rest.credit + CreditOf(rec, criteria, f, unit)]

SetFields(criteria) == {f \in ScoringFields : IsSet(criteria, f)}

\* weights and credits of a record over the set dimensions
Tally(rec, criteria) ==
    SumOf(SetFields(criteria), rec, criteria, CreditUnit(criteria))

\* score = 100 * credits / weights, credits being in units of 1/unit
IsShare(score, tally, unit) ==
    /\ score.n * tally.weight * unit = 100 * tally.credit * score.d
    /\ tally.credit = tally.weight * unit => score.n = 100 * score.d

\* match_score, in hundredths, is that score rounded to two places
IsReported(hundredths, tally, unit) ==
    /\ 2 * (hundredths * tally.weight * unit - 10000 * tally.credit)
          <= tally.weight * unit
    /\ 2 * (10000 * tally.credit - hundredths * tally.weight * unit)
          <= tally.weight * unit
    /\ tally.credit = tally.weight * unit => hundredths = 10000

\* C18: the score is 100 * (credits earned on the set dimensions) / (weights
\* of the set dimensions) with weights 30, 25, 20, 10, 5, 5, 5, so a record
\* with full credit on every set dimension scores exactly 100 whichever and
\* however many fields are set.
C18_SelfNormalizing ==
    (HasCatalogue /\ call.op = "recommend" /\ SetFields(call.criteria) # {}) =>
        /\ \A i \in 1..Len(assessments.v) :
              calculate_match_score(Stored(i), call.criteria).err = NoError =>
                  IsShare(calculate_match_score(Stored(i), call.criteria).value,
                          Tally(Stored(i), call.criteria), CreditUnit(call.criteria))
        /\ outcome = "returned" =>
              \A j \in 1..Len(result) :
                  IsReported(MatchScore(result[j]),
                             Tally(Stored(resultPos[j]), call.criteria),
                             CreditUnit(call.criteria))

\* six fields set: one record has full credit on all six and is reported at
\* 100, another is reported strictly between 0 and 100
C18_Witness ==
    /\ HasCatalogue /\ RecommendReturned
    /\ Cardinality(SetFields(call.criteria)) = 6
    /\ \E j \in 1..Len(result) :
          /\ Tally(Stored(resultPos[j]), call.criteria).weight = 95
          /\ MatchScore(result[j]) = 10000
    /\ \E j \in 1..Len(result) :
          MatchScore(result[j]) > 0 /\ MatchScore(result[j]) < 10000

\* the role credit of the specification: exact or wildcard before partial
RoleExpected(rec, role) ==
    IF RoleExact(rec, role) THEN 30
    ELSE IF RolePartial(rec, role) THEN 15
    ELSE 0

\* some target role lies inside the criteria role and none holds it
OnlyInsideRole(rec, role) ==
    /\ ~RoleExact(rec, role)
    /\ \E i \in 1..Len(FieldList(rec, "target_roles")) :
          IsSubstring(Lower(FieldList(rec, "target_roles")[i]), Lower(role))
    /\ \A i \in 1..Len(FieldList(rec, "target_roles")) :
          ~IsSubstring(Lower(role), Lower(FieldList(rec, "target_roles")[i]))

\* C19: when target_role is set the role dimension earns 30 if target_roles
\* holds the literal "all" or the criteria role (case-insensitive), otherwise
\* 15 if a target role and the criteria role are substrings of one another in
\* either direction, otherwise 0; the credit is one of 0, 15, 30.
C19_RoleCredit ==
    (HasCatalogue /\ call.op = "recommend" /\ IsSet(call.criteria, "target_role")) =>
        /\ \A i \in 1..Len(assessments.v) :
              RoleDim(Stored(i), call.criteria).err = NoError =>
                  /\ RoleDim(Stored(i), call.criteria).weight = 30
                  /\ RoleDim(Stored(i), call.criteria).credit
                        = Frac(RoleExpected(Stored(i), call.criteria.target_role.v), 1)
        /\ (outcome = "returned" /\ SetFields(call.criteria) = {"target_role"}) =>
              \A j \in 1..Len(result) :
                  MatchScore(result[j]) * 30
                    = 10000 * RoleExpected(Stored(resultPos[j]), call.criteria.target_role.v)

\* only the role is set: the wildcard record comes first at 100, a record
\* with a target role inside the criteria role follows at 50, a record
\* with no target roles is last at 0
C19_Witness ==
    /\ HasCatalogue /\ RecommendReturned
    /\ SetFields(call.criteria) = {"target_role"}
    /\ Len(result) = 3
    /\ MatchScore(result[1]) = 10000 /\ MatchScore(result[2]) = 5000
    /\ MatchScore(result[3]) = 0
    /\ \E i \in 1..Len(FieldList(Stored(resultPos[1]), "target_roles")) :
          FieldList(Stored(resultPos[1]), "target_roles")[i] = <<"a", "l", "l">>
    /\ OnlyInsideRole(Stored(resultPos[2]), call.criteria.target_role.v)
    /\ FieldList(Stored(resultPos[3]), "target_roles") = <<>>

\* the duration credit of the specification, a record with no duration
\* (absent or null) counting as duration 0
DurationExpected(rec, limit) ==
    IF FieldNumber(rec, "duration_minutes") <= limit THEN Frac(5, 1)
    ELSE IF 2 * FieldNumber(rec, "duration_minutes") <= 3 * limit THEN Frac(5, 2)
    ELSE Frac(0, 1)

\* C20: when max_duration_minutes is set the duration dimension (weight 5)
\* earns 5 if the assessment's duration <= max, 2.5 if max < duration <=
\* 1.5 * max and 0 otherwise; an assessment with no duration, absent or null,
\* is treated as duration 0 and earns the full 5.
C20_DurationCredit ==
    (HasCatalogue /\ call.op = "recommend"
        /\ IsSet(call.criteria, "max_duration_minutes")) =>
        \A i \in 1..Len(assessments.v) :
            /\ DurationDim(Stored(i), call.criteria).err = NoError
            /\ DurationDim(Stored(i), call.criteria).weight = 5
            /\ DurationDim(Stored(i), call.criteria).credit
                  = DurationExpected(Stored(i), call.criteria.max_duration_minutes.v)

\* a fraction equals k / m
FracIs(x, k, m) == x.n * m = k * x.d

\* C21: when competencies is set the competencies dimension earns
\* 25 * |overlap| / |required|, required being the set of lower-cased criteria
\* competencies and overlap its intersection with the lower-cased assessment
\* competencies: 0 when nothing overlaps, 25 exactly when every required
\* competency is present, never more than 25.
C21_CompetenciesCredit ==
    (HasCatalogue /\ call.op = "recommend" /\ IsSet(call.criteria, "competencies")) =>
        /\ \A i \in 1..Len(assessments.v) :
              CompetenciesDim(Stored(i), call.criteria).err = NoError =>
                  /\ CompetenciesDim(Stored(i), call.criteria).weight = 25
                  /\ FracIs(CompetenciesDim(Stored(i), call.criteria).credit,
                            25 * Cardinality(Offered(Stored(i)) \cap Required(call.criteria)),
                            Cardinality(Required(call.criteria)))
                  /\ FracLe(CompetenciesDim(Stored(i), call.criteria).credit, Frac(25, 1))
                  /\ CompetenciesDim(Stored(i), call.criteria).credit.n = 0
                        <=> Offered(Stored(i)) \cap Required(call.criteria) = {}
                  /\ FracIs(CompetenciesDim(Stored(i), call.criteria).credit, 25, 1)
                        <=> Required(call.criteria) \subseteq Offered(Stored(i))
        /\ (outcome = "returned" /\ SetFields(call.criteria) = {"competencies"}) =>
              \A j \in 1..Len(result) :
                  IsReported(MatchScore(result[j]),
                             [weight |-> Cardinality(Required(call.criteria)),
                              credit |-> Cardinality(Offered(Stored(resultPos[j]))
                                                     \cap Required(call.criteria))],
                             1)

\* only competencies is set, to a list of three naming two competencies: a
\* record offering one of the two is reported at 50, one offering neither at 0
C21_Witness ==
    /\ HasCatalogue /\ RecommendReturned
    /\ SetFields(call.criteria) = {"competencies"}
    /\ Len(call.criteria.competencies.v) = 3
    /\ Cardinality(Required(call.criteria)) = 2
    /\ \E j \in 1..Len(result) :
          /\ Cardinality(Offered(Stored(resultPos[j])) \cap Required(call.criteria)) = 1
          /\ MatchScore(result[j]) = 5000
    /\ \E j \in 1..Len(result) :
          /\ Offered(Stored(resultPos[j])) = {}
          /\ MatchScore(result[j]) = 0

\* the criteria fields in the order of Dimensions
DimFields ==
    << "target_role", "competencies", "use_case", "assessment_type",
       "max_duration_minutes", "difficulty_level", "language" >>

\* a criteria field holds a value, whichever it is
IsGiven(criteria, f) == criteria[f].t # "null"

\* C22: a dimension is activated (its weight enters the denominator) exactly
\* when its criteria field is not absent: a field given as "", [] or 0
\* activates its dimension like any other value.
C22_ActiveWhenGiven ==
    (HasCatalogue /\ call.op = "recommend") =>
        \A i \in 1..Len(assessments.v) : \A k \in 1..Len(DimFields) :
            Dimensions(Stored(i), call.criteria)[k].err = NoError =>
                (Dimensions(Stored(i), call.criteria)[k].weight = WeightOf(DimFields[k])
                    <=> IsGiven(call.criteria, DimFields[k]))

\* C22 (amended): a dimension is activated exactly when its criteria field
\* holds a value other than None, "", [] and 0; a field holding one of these
\* adds nothing to the denominator and earns no credit, so the denominator is
\* the sum of the weights of the other fields.
C22_ActiveWhenTruthy ==
    (HasCatalogue /\ call.op = "recommend") =>
        \A i \in 1..Len(assessments.v) :
            /\ \A k \in 1..Len(DimFields) :
                  Dimensions(Stored(i), call.criteria)[k].err = NoError =>
                      /\ Dimensions(Stored(i), call.criteria)[k].weight
                            = (IF IsSet(call.criteria, DimFields[k])
                               THEN WeightOf(DimFields[k]) ELSE 0)
                      /\ ~IsSet(call.criteria, DimFields[k]) =>
                            Dimensions(Stored(i), call.criteria)[k].credit.n = 0
            /\ Failing(Dimensions(Stored(i), call.criteria)) = {} =>
                  SumWeights(Dimensions(Stored(i), call.criteria))
                      = Tally(Stored(i), call.criteria).weight

\* a role is named and competencies, use_case and max_duration_minutes are
\* given as [], "" and 0: a record matching the role is reported at 100, the
\* three given fields having added nothing to the denominator
C22_Witness ==
    /\ HasCatalogue /\ RecommendReturned
    /\ SetFields(call.criteria) = {"target_role"}
    /\ {f \in ScoringFields : IsGiven(call.criteria, f)}
          = {"target_role", "competencies", "use_case", "max_duration_minutes"}
    /\ \E j \in 1..Len(result) :
          /\ RoleExact(Stored(resultPos[j]), call.criteria.target_role.v)
          /\ MatchScore(result[j]) = 10000

\* the all-or-nothing dimensions, as positions of DimFields
AllOrNothing == {3, 4, 6, 7}

\* the criteria value equals the record's value, or one element of the
\* record's list, up to case
EqualsUpToCase(rec, criteria, f) ==
    CASE f = "use_case" -> HasLowered(FieldList(rec, "use_cases"), criteria.use_case.v)
      [] f = "language" -> HasLowered(FieldList(rec, "languages"), criteria.language.v)
      [] f = "assessment_type" ->
            Lower(FieldText(rec, "type")) = Lower(criteria.assessment_type.v)
      [] f = "difficulty_level" ->
            Lower(FieldText(rec, "difficulty_level")) = Lower(criteria.difficulty_level.v)

\* the criteria value is inside the record's value or one element of its
\* list, or the other way round, without being equal to it up to case
OnlyInside(rec, criteria, f) ==
    /\ ~EqualsUpToCase(rec, criteria, f)
    /\ CASE f = "use_case" ->
              \E i \in 1..Len(FieldList(rec, "use_cases")) :
                  IsSubstring(Lower(criteria.use_case.v), Lower(FieldList(rec, "use_cases")[i]))
         [] f = "language" ->
              \E i \in 1..Len(FieldList(rec, "languages")) :
                  IsSubstring(Lower(criteria.language.v), Lower(FieldList(rec, "languages")[i]))
         [] f = "assessment_type" ->
              /\ FieldText(rec, "type") # <<>>
              /\ IsSubstring(Lower(criteria.assessment_type.v), Lower(FieldText(rec, "type")))
         [] f = "difficulty_level" ->
              /\ FieldText(rec, "difficulty_level") # <<>>
              /\ IsSubstring(Lower(FieldText(rec, "difficulty_level")),
                             Lower(criteria.difficulty_level.v))

\* C23: the use-case (20), type (10), difficulty (5) and language (5)
\* dimensions are all-or-nothing: a set dimension earns its full weight exactly
\* when the criteria value equals the record's value, or one element of the
\* record's list, up to case, and 0 otherwise; a substring earns nothing.
C23_AllOrNothing ==
    (HasCatalogue /\ call.op = "recommend") =>
        /\ \A i \in 1..Len(assessments.v) : \A k \in AllOrNothing :
              (/\ IsSet(call.criteria, DimFields[k])
               /\ Dimensions(Stored(i), call.criteria)[k].err = NoError) =>
                  /\ Dimensions(Stored(i), call.criteria)[k].weight = WeightOf(DimFields[k])
                  /\ Dimensions(Stored(i), call.criteria)[k].credit
                        = (IF EqualsUpToCase(Stored(i), call.criteria, DimFields[k])
                           THEN Frac(WeightOf(DimFields[k]), 1) ELSE Frac(0, 1))
                  /\ OnlyInside(Stored(i), call.criteria, DimFields[k]) =>
                        Dimensions(Stored(i), call.criteria)[k].credit.n = 0
        /\ outcome = "returned" =>
              \A k \in AllOrNothing :
                  SetFields(call.criteria) = {DimFields[k]} =>
                      \A j \in 1..Len(result) :
                          MatchScore(result[j])
                              = (IF EqualsUpToCase(Stored(resultPos[j]), call.criteria,
                                                   DimFields[k])
                                 THEN 10000 ELSE 0)

\* only use_case is set: a record listing the value in another case is
\* reported at 100 and a record listing no use case at 0
C23_Witness ==
    /\ HasCatalogue /\ RecommendReturned
    /\ SetFields(call.criteria) = {"use_case"}
    /\ \E j \in 1..Len(result) :
          /\ EqualsUpToCase(Stored(resultPos[j]), call.criteria, "use_case")
          /\ ~InList(call.criteria.use_case.v, FieldList(Stored(resultPos[j]), "use_cases"))
          /\ MatchScore(result[j]) = 10000
    /\ \E j \in 1..Len(result) :
          /\ FieldList(Stored(resultPos[j]), "use_cases") = <<>>
          /\ MatchScore(result[j]) = 0

\* the similarity of the record at catalogue position p to the text of the call
SimilarityAt(p) ==
    Similarities(transform(index.vectorizer, Strip(call.text.v)), index.matrix.v)[p]

\* the record at position p ranks before the one at position q
RanksBefore(p, q) ==
    \/ SimilarityAt(p) > SimilarityAt(q)
    \/ SimilarityAt(p) = SimilarityAt(q) /\ p < q

\* C24: the list recommend_from_text returns is a prefix of the catalogue
\* ranked by similarity, highest first, records of equal similarity in
\* catalogue order: each returned record carries its own similarity, no record
\* left out ranks before a returned one, and no position is returned twice.
C24_TopRankedPrefix ==
    (HasCatalogue /\ TextReturned /\ result # <<>>) =>
        /\ \A j \in 1..Len(result) :
              /\ resultPos[j] \in 1..Len(assessments.v)
              /\ Similarity(result[j]) = SimilarityAt(resultPos[j])
        /\ \A i, j \in 1..Len(result) :
              i < j =>
                  /\ Similarity(result[i]) >= Similarity(result[j])
                  /\ Similarity(result[i]) = Similarity(result[j]) =>
                        resultPos[i] < resultPos[j]
                  /\ resultPos[i] # resultPos[j]
        /\ \A p \in 1..Len(assessments.v) :
              (\A j \in 1..Len(result) : resultPos[j] # p) =>
                  \A j \in 1..Len(result) :
                      /\ SimilarityAt(p) <= Similarity(result[j])
                      /\ RanksBefore(resultPos[j], p)

\* a returned list on which the similarity falls, two records tie, the sort
\* moved a record forward, and a record tying with the last one is left out
C24_Witness ==
    /\ HasCatalogue /\ TextReturned
    /\ Len(result) > 1 /\ Len(result) < Len(assessments.v)
    /\ \E i \in 1..(Len(result) - 1) : Similarity(result[i]) > Similarity(result[i + 1])
    /\ \E i \in 1..(Len(result) - 1) : Similarity(result[i]) = Similarity(result[i + 1])
    /\ \E i \in 1..(Len(result) - 1) : resultPos[i] > resultPos[i + 1]
    /\ \E p \in 1..Len(assessments.v) :
          /\ \A j \in 1..Len(result) : resultPos[j] # p
          /\ SimilarityAt(p) = Similarity(result[Len(result)])

\* the catalogue holds at least one record
NonEmptyCatalogue == assessments.t = "list" /\ assessments.v # <<>>

\* C25: in every state after construction the (catalogue, index) pair is
\* consistent: nothing of the index exists when loading failed, the index is built if
\* and only if the catalogue is non-empty, and a built index holds one vector
\* per catalogue record, in catalogue order, each the vector of that record's
\* text, so every position of the index is a position of the catalogue.
C25_PairConsistent ==
    /\ (phase = "failed" /\ error.origin = "load") =>
          (index.vectorizer = Unset /\ index.matrix = Unset)
    /\ phase = "ready" =>
          /\ IndexBuilt <=> NonEmptyCatalogue
          /\ ~IndexBuilt => index = NoIndex
          /\ IndexBuilt =>
                /\ Len(index.matrix.v) = Len(assessments.v)
                /\ build_text_index(assessments).err = NoError
                /\ index = build_text_index(assessments).value

====
